---- MODULE Spec2Model ----
(***************************************************************************)
(* Model of the two Baidu geocoders of geopy:                              *)
(*   geopy/geocoders/baiduv1.py  (class BaiduV1)                           *)
(*   geopy/geocoders/baiduv2.py  (class BaiduV2)                           *)
(* One geocoder instance is constructed (Init) and then serves a sequence  *)
(* of blocking geocode / reverse calls.  A call builds its request         *)
(* parameters, hands the request to the transport (_call_geocoder) and,    *)
(* when the transport returns, parses the JSON response (_parse_json).     *)
(***************************************************************************)
EXTENDS Integers, Sequences, FiniteSets, TLC

VARIABLES cfg, pc, call, request, response, outcome,
          requests, parsed, statusChecked, remembered

vars == <<cfg, pc, call, request, response, outcome,
          requests, parsed, statusChecked, remembered>>

(***************************************************************************)
(* Python / JSON values.  Every value carries its type in field t, and     *)
(* each type keeps its payload under a field of its own.                   *)
(***************************************************************************)
None == [t |-> "none"]

\* a key that a dict does not hold
Missing == [t |-> "missing"]

PyInt(n) == [t |-> "int", n |-> n]

PyFloat(n) == [t |-> "float", n |-> n]

PyStr(s) == [t |-> "str", s |-> s]

PyList(items) == [t |-> "list", items |-> items]

\* the {lat, lng} object of a provider payload
LocDict(lat, lng) == [t |-> "locdict", lat |-> lat, lng |-> lng]

\* a dict with the keys this module reads from a result / an entry
Dict(formatted_address, level, location) ==
    [t |-> "dict", formatted_address |-> formatted_address,
     level |-> level, location |-> location]

EmptyDict == Dict(Missing, Missing, Missing)

\* the JSON object the transport hands to _parse_json
Response(status, result, results, level, location) ==
    [t |-> "response", status |-> status, result |-> result,
     results |-> results, level |-> level, location |-> location]

IsNumber(v) == v.t \in {"int", "float"}

\* Python's ==
PyEq(a, b) ==
    IF IsNumber(a) /\ IsNumber(b) THEN a.n = b.n
    ELSE IF a.t = "str" /\ b.t = "str" THEN a.s = b.s
    ELSE a.t = "none" /\ b.t = "none"

\* number of keys a dict holds
DictLen(d) ==
    Cardinality({k \in {"formatted_address", "level", "location"} : d[k] # Missing})

\* the types len() accepts
HasLen(v) == v.t \in {"list", "dict", "str"}

\* Python's len()
PyLen(v) ==
    IF v.t = "list" THEN Len(v.items)
    ELSE IF v.t = "dict" THEN DictLen(v)
    ELSE Len(v.s)

\* Python's truth value
Truthy(v) ==
    IF v.t = "none" THEN FALSE
    ELSE IF IsNumber(v) THEN v.n # 0
    ELSE IF HasLen(v) THEN PyLen(v) > 0
    ELSE TRUE

\* dict.get(key, default)
Get(v, default) == IF v = Missing THEN default ELSE v

\* x or None
OrNone(v) == IF Truthy(v) THEN v ELSE None

\* float(x) of a number
ToFloat(v) == PyFloat(v.n)

(***************************************************************************)
(* Outcomes of a call.                                                     *)
(***************************************************************************)
Pending == [kind |-> "pending"]

Return(v) == [kind |-> "return", value |-> v]

Raise(exc, msg) == [kind |-> "raise", exc |-> exc, msg |-> msg]

\* geopy.location.Location(address, (latitude, longitude), raw)
Location(address, latitude, longitude, raw) ==
    [t |-> "Location", address |-> address, latitude |-> latitude,
     longitude |-> longitude, raw |-> raw]

(***************************************************************************)
(* Status validation.                                                      *)
(***************************************************************************)
QueryError(msg) == Raise("GeocoderQueryError", msg)

\* the value a function returns when it falls off its end or says "return"
Silent == Return(None)

\* BaiduV1._check_status with the key status spelled 'INVALID_KEY'
CheckStatusV1_Respelled(status) ==
    IF PyEq(status, PyStr("OK")) THEN Silent
    ELSE IF PyEq(status, PyInt(1)) THEN QueryError("Server internal error.")
    ELSE IF PyEq(status, PyStr("INVALID_KEY")) THEN QueryError("Invalid key.")
    ELSE IF PyEq(status, PyStr("INVALID_PARAMETERS")) THEN QueryError("INVALID PARAMETERS.")
    ELSE QueryError("Unknown error.")

\* BaiduV1._check_status
CheckStatusV1(status) ==
    IF PyEq(status, PyStr("OK")) THEN Silent
    ELSE IF PyEq(status, PyInt(1)) THEN QueryError("Server internal error.")
    ELSE IF PyEq(status, PyStr("INVILID_KEY")) THEN QueryError("Invalid key.")
    ELSE IF PyEq(status, PyStr("INVALID_PARAMETERS")) THEN QueryError("INVALID PARAMETERS.")
    ELSE QueryError("Unknown error.")

\* BaiduV2._check_status with 'if not status' in place of 'if status == 0'
CheckStatusV2_Falsy(status) ==
    IF ~Truthy(status) THEN Silent
    ELSE IF PyEq(status, PyInt(1)) THEN QueryError("Server internal error.")
    ELSE IF PyEq(status, PyInt(2)) THEN QueryError("Invalid request.")
    ELSE IF PyEq(status, PyInt(3)) THEN QueryError("Permission validation failed.")
    ELSE IF PyEq(status, PyInt(4)) THEN QueryError("Quota validation failed.")
    ELSE IF PyEq(status, PyInt(5)) THEN QueryError("Invalid ak.")
    ELSE IF PyEq(status, PyInt(101)) THEN QueryError("Service disabled.")
    ELSE IF PyEq(status, PyInt(102))
         THEN QueryError("Failed to pass the whitelist or wrong security code.")
    ELSE QueryError("Unknown error.")

\* BaiduV2._check_status
CheckStatusV2(status) ==
    IF PyEq(status, PyInt(0)) THEN Silent
    ELSE IF PyEq(status, PyInt(1)) THEN QueryError("Server internal error.")
    ELSE IF PyEq(status, PyInt(2)) THEN QueryError("Invalid request.")
    ELSE IF PyEq(status, PyInt(3)) THEN QueryError("Permission validation failed.")
    ELSE IF PyEq(status, PyInt(4)) THEN QueryError("Quota validation failed.")
    ELSE IF PyEq(status, PyInt(5)) THEN QueryError("Invalid ak.")
    ELSE IF PyEq(status, PyInt(101)) THEN QueryError("Service disabled.")
    ELSE IF PyEq(status, PyInt(102))
         THEN QueryError("Failed to pass the whitelist or wrong security code.")
    ELSE QueryError("Unknown error.")

(***************************************************************************)
(* Response parsing.  A parse yields the outcome of the call together with *)
(* the fact whether _check_status was invoked on the way.                  *)
(***************************************************************************)
Parsed(out, checked) == [outcome |-> out, statusChecked |-> checked]

\* the closure parse_result of BaiduV1._parse_json, applied to the response
ParseResultV1(resp) ==
    LET result == resp.result
    IN IF result.t # "dict" THEN Raise("AttributeError", "get")
       ELSE IF result.location = Missing THEN Raise("KeyError", "location")
       ELSE LET address == Get(result.formatted_address, None)
                lat == OrNone(result.location.lat)
                lng == OrNone(result.location.lng)
                both == Truthy(lat) /\ Truthy(lng)
                latitude == IF both THEN ToFloat(lat) ELSE lat
                longitude == IF both THEN ToFloat(lng) ELSE lng
            IN Return(Location(address, latitude, longitude, result))

\* BaiduV1._parse_json validating the status before it looks at the result
ParseJsonV1_CheckFirst(resp, exactly_one) ==
    LET result == Get(resp.result, PyList(<<>>))
        checked == CheckStatusV1(Get(resp.status, None))
    IN IF checked.kind = "raise" THEN Parsed(checked, TRUE)
       ELSE IF ~HasLen(result) THEN Parsed(Raise("TypeError", "len"), TRUE)
       ELSE IF PyLen(result) = 0 THEN Parsed(Return(None), TRUE)
       ELSE Parsed(ParseResultV1(resp), TRUE)

\* BaiduV1._parse_json
ParseJsonV1(resp, exactly_one) ==
    LET result == Get(resp.result, PyList(<<>>))
    IN IF ~HasLen(result) THEN Parsed(Raise("TypeError", "len"), FALSE)
       ELSE IF PyLen(result) = 0
       THEN LET checked == CheckStatusV1(Get(resp.status, None))
            IN Parsed(IF checked.kind = "raise" THEN checked ELSE Return(None), TRUE)
       ELSE Parsed(ParseResultV1(resp), FALSE)

\* the closure parse_result of BaiduV2._parse_json, applied to the response
ParseResultV2(resp) ==
    IF resp.level = Missing THEN Raise("KeyError", "level")
    ELSE IF resp.location = Missing THEN Raise("KeyError", "location")
    ELSE LET level == resp.level
             lat == OrNone(resp.location.lat)
             lng == OrNone(resp.location.lng)
             both == Truthy(lat) /\ Truthy(lng)
             latitude == IF both THEN ToFloat(lat) ELSE lat
             longitude == IF both THEN ToFloat(lng) ELSE lng
         IN Return(Location(level, latitude, longitude, resp))

\* BaiduV2._parse_json returning a list of results unless exactly_one
ParseJsonV2_List(resp, exactly_one) ==
    LET result == Get(resp.results, PyList(<<>>))
    IN IF ~HasLen(result) THEN Parsed(Raise("TypeError", "len"), FALSE)
       ELSE IF PyLen(result) = 0
       THEN LET checked == CheckStatusV2(Get(resp.status, None))
            IN Parsed(IF checked.kind = "raise" THEN checked ELSE Return(None), TRUE)
       ELSE LET one == ParseResultV2(resp)
            IN Parsed(IF exactly_one \/ one.kind = "raise" THEN one
                      ELSE Return(PyList(<<one.value>>)), FALSE)

\* BaiduV2._parse_json
ParseJsonV2(resp, exactly_one) ==
    LET result == Get(resp.results, PyList(<<>>))
    IN IF ~HasLen(result) THEN Parsed(Raise("TypeError", "len"), FALSE)
       ELSE IF PyLen(result) = 0
       THEN LET checked == CheckStatusV2(Get(resp.status, None))
            IN Parsed(IF checked.kind = "raise" THEN checked ELSE Return(None), TRUE)
       ELSE Parsed(ParseResultV2(resp), FALSE)

(***************************************************************************)
(* Construction and request building.                                      *)
(***************************************************************************)
\* the template format_string, with its one %s slot between pre and post
FormatString(pre, post) == [pre |-> pre, post |-> post]

\* geopy.geocoders.base.DEFAULT_FORMAT_STRING, '%s'
DEFAULT_FORMAT_STRING == FormatString("", "")

\* format_string % query
Interpolate(format_string, query) == format_string.pre \o query.s \o format_string.post

\* BaiduV1.__init__
InitV1(key, format_string, scheme, timeout, proxies) ==
    [ver |-> "BaiduV1", format_string |-> format_string, scheme |-> scheme,
     timeout |-> timeout, proxies |-> proxies, key |-> key,
     api |-> scheme \o "://api.map.baidu.com/geocoder"]

\* BaiduV2.__init__
InitV2(ak, format_string, scheme, timeout, proxies) ==
    [ver |-> "BaiduV2", format_string |-> format_string, scheme |-> scheme,
     timeout |-> timeout, proxies |-> proxies, ak |-> ak,
     api |-> scheme \o "://api.map.baidu.com/geocoder/v2/"]

\* Geocoder._coerce_point_to_string: the "lat,lng" text of a point-like value
CoercePointToString(point) == point.lat \o "," \o point.lng

\* the params dict of BaiduV1.geocode with 'if city is not None'
GeocodeParamsV1_NotNone(self, query, city) ==
    IF city # None
    THEN [address |-> Interpolate(self.format_string, query), output |-> "json",
          key |-> self.key, city |-> city.s]
    ELSE [address |-> Interpolate(self.format_string, query), output |-> "json",
          key |-> self.key]

\* the params dict of BaiduV1.geocode
GeocodeParamsV1(self, query, city) ==
    IF Truthy(city)
    THEN [address |-> Interpolate(self.format_string, query), output |-> "json",
          key |-> self.key, city |-> city.s]
    ELSE [address |-> Interpolate(self.format_string, query), output |-> "json",
          key |-> self.key]

\* the params dict of BaiduV2.geocode
GeocodeParamsV2(self, query, city) ==
    IF Truthy(city)
    THEN [address |-> Interpolate(self.format_string, query), output |-> "json",
          ak |-> self.ak, city |-> city.s]
    ELSE [address |-> Interpolate(self.format_string, query), output |-> "json",
          ak |-> self.ak]

\* the params dict of BaiduV1.reverse
ReverseParamsV1(self, query) ==
    [location |-> CoercePointToString(query), output |-> "json", key |-> self.key]

\* the params dict of BaiduV2.reverse with the coordtype argument dropped
ReverseParamsV2_FixedCoordtype(self, query, coordtype) ==
    [location |-> CoercePointToString(query), coordtype |-> "bd09ll",
     output |-> "json", ak |-> self.ak]

\* the params dict of BaiduV2.reverse
ReverseParamsV2(self, query, coordtype) ==
    [location |-> CoercePointToString(query), coordtype |-> coordtype.s,
     output |-> "json", ak |-> self.ak]

\* the request handed to _call_geocoder: the url "api?urlencode(params)",
\* kept as its two parts, and the timeout argument
Request(self, params, timeout) ==
    [target |-> self.api, params |-> params, timeout |-> timeout]

(***************************************************************************)
(* The inputs: constructor arguments, call arguments, transport results.   *)
(***************************************************************************)
\* longest results list of a response
MaxResults == 2

Keys == {"09fb9fc373671eaa"}

Schemes == {"http", "https"}

FormatStrings == {DEFAULT_FORMAT_STRING, FormatString("", ", China")}

InitTimeouts == {PyInt(1)}

Queries == {PyStr("3 Hongqiao Rd"), PyStr("Zhongguancun")}

\* city: left out (None), the empty string, a city name
Cities == {None, PyStr(""), PyStr("Shanghai")}

\* point-like values: a (latitude, longitude) pair, a "latitude, longitude" string
Points ==
    {[t |-> "tuple", lat |-> "39.983424", lng |-> "116.322987"],
     [t |-> "str", lat |-> "31.2", lng |-> "121.4"]}

\* coordtype: left out by the caller, or given
CoordTypes == {Missing, PyStr("wgs84ll")}

Flags == BOOLEAN

\* timeout: left to the instance default
CallTimeouts == {None}

Statuses ==
    {Missing, PyStr("OK"), PyStr("INVILID_KEY"), PyStr("INVALID_PARAMETERS"),
     PyStr("FAIL"), PyFloat(1)}
    \cup {PyInt(n) : n \in {0, 1, 2, 3, 4, 5, 101, 102, 999}}

\* the statuses sent along with a non-empty payload
FewStatuses == {PyStr("OK"), PyInt(0), PyInt(5)}

\* null, zero, non-zero numbers
Coords == {None, PyInt(0), PyInt(39), PyFloat(116)}

Locations == {LocDict(lat, lng) : lat \in Coords, lng \in Coords}

\* the result objects of the V1 shape {status, result: {formatted_address, location}}
ResultsV1 ==
    {Dict(PyStr("Hongqiao Rd 3, Shanghai"), Missing, l) : l \in Locations}
    \cup {Dict(Missing, Missing, LocDict(PyFloat(116), PyInt(39))),
          Dict(PyStr("Hongqiao Rd 3, Shanghai"), Missing, Missing)}

\* the entries of the V2 shape {status, results: [{level, location}, ...]}
Entries ==
    {Dict(Missing, PyStr("road"), LocDict(PyFloat(116), PyInt(39))),
     Dict(Missing, PyStr("city"), LocDict(PyInt(0), None))}

ResultLists == UNION {[1..n -> Entries] : n \in 0..MaxResults}

\* responses without a result: status check decides
EmptyResponses ==
    {Response(st, r, Missing, Missing, Missing) :
        st \in Statuses, r \in {Missing, PyList(<<>>), EmptyDict}}
    \cup {Response(st, Missing, PyList(<<>>), Missing, Missing) : st \in Statuses}

\* responses of the V1 shape (and a null result)
ResponsesV1 ==
    {Response(st, r, Missing, Missing, Missing) :
        st \in FewStatuses, r \in ResultsV1 \cup {None}}

\* responses of the V2 shape
ResponsesV2 ==
    {Response(st, Missing, PyList(rs), Missing, Missing) :
        st \in FewStatuses, rs \in ResultLists \ {<<>>}}

\* responses with a results list and level / location at the top level
ResponsesFlat ==
    {Response(st, Missing, PyList(<<e>>), PyStr("road"), l) :
        st \in FewStatuses, e \in Entries, l \in Locations \cup {Missing}}
    \cup {Response(PyInt(0), Missing, PyList(<<e>>), Missing, e.location) : e \in Entries}

Responses == EmptyResponses \cup ResponsesV1 \cup ResponsesV2 \cup ResponsesFlat

\* the failures _call_geocoder raises: timeout, connection failure
TransportErrors ==
    {Raise("GeocoderTimedOut", "Service timed out"),
     Raise("GeocoderServiceError", "connection failure")}

(***************************************************************************)
(* The state machine.                                                      *)
(***************************************************************************)
NoCall == [op |-> "none"]

Init ==
    /\ cfg \in {InitV1(k, f, s, t, None) :
                    k \in Keys, f \in FormatStrings, s \in Schemes, t \in InitTimeouts}
               \cup {InitV2(k, f, s, t, None) :
                    k \in Keys, f \in FormatStrings, s \in Schemes, t \in InitTimeouts}
    /\ pc = "idle"
    /\ call = NoCall
    /\ request = NoCall
    /\ response = Pending
    /\ outcome = Pending
    /\ requests = 0
    /\ parsed = FALSE
    /\ statusChecked = FALSE
    /\ remembered = NoCall

\* entry of a call that stores its timeout argument in the instance
Send_StoresTimeout(c, r) ==
    /\ pc \in {"idle", "done"}
    /\ call' = c
    /\ request' = r
    /\ requests' = 1
    /\ pc' = "waiting"
    /\ response' = Pending
    /\ outcome' = Pending
    /\ parsed' = FALSE
    /\ statusChecked' = FALSE
    /\ cfg' = [cfg EXCEPT !.timeout = c.timeout]

\* entry of a call up to the point where _call_geocoder has the request
Send(c, r) ==
    /\ pc \in {"idle", "done"}
    /\ call' = c
    /\ request' = r
    /\ requests' = 1
    /\ pc' = "waiting"
    /\ response' = Pending
    /\ outcome' = Pending
    /\ parsed' = FALSE
    /\ statusChecked' = FALSE
    /\ UNCHANGED cfg

\* BaiduV1.geocode, up to the transport call
GeocodeV1(query, city, exactly_one, timeout) ==
    /\ cfg.ver = "BaiduV1"
    /\ Send([op |-> "geocode", query |-> query, city |-> city,
             exactly_one |-> exactly_one, timeout |-> timeout],
            Request(cfg, GeocodeParamsV1(cfg, query, city), timeout))

\* BaiduV1.reverse, up to the transport call
ReverseV1(query, exactly_one, timeout) ==
    /\ cfg.ver = "BaiduV1"
    /\ Send([op |-> "reverse", query |-> query,
             exactly_one |-> exactly_one, timeout |-> timeout],
            Request(cfg, ReverseParamsV1(cfg, query), timeout))

\* BaiduV2.geocode, up to the transport call
GeocodeV2(query, city, exactly_one, timeout) ==
    /\ cfg.ver = "BaiduV2"
    /\ Send([op |-> "geocode", query |-> query, city |-> city,
             exactly_one |-> exactly_one, timeout |-> timeout],
            Request(cfg, GeocodeParamsV2(cfg, query, city), timeout))

\* BaiduV2.reverse, up to the transport call; coordtype defaults to 'bd09ll'
ReverseV2(query, coordtype, exactly_one, timeout) ==
    /\ cfg.ver = "BaiduV2"
    /\ Send([op |-> "reverse", query |-> query, coordtype |-> coordtype,
             exactly_one |-> exactly_one, timeout |-> timeout],
            Request(cfg, ReverseParamsV2(cfg, query, Get(coordtype, PyStr("bd09ll"))),
                    timeout))

\* the rest of a call once _call_geocoder has returned resp: p is the parse
Finish(resp, p) ==
    /\ pc = "waiting"
    /\ response' = resp
    /\ outcome' = p.outcome
    /\ parsed' = TRUE
    /\ statusChecked' = p.statusChecked
    /\ pc' = "done"
    /\ UNCHANGED <<cfg, call, request, requests>>

\* BaiduV1.geocode / reverse: return self._parse_json(<response>, exactly_one)
ReturnV1(resp) ==
    /\ cfg.ver = "BaiduV1"
    /\ Finish(resp, ParseJsonV1(resp, call.exactly_one))

\* BaiduV2.geocode / reverse: return self._parse_json(<response>, exactly_one)
ReturnV2(resp) ==
    /\ cfg.ver = "BaiduV2"
    /\ Finish(resp, ParseJsonV2(resp, call.exactly_one))

\* a transport failure answered by sending the request once more
Propagate_Retry(err) ==
    /\ pc = "waiting"
    /\ IF requests < 2
       THEN /\ requests' = requests + 1
            /\ UNCHANGED <<pc, response, outcome>>
       ELSE /\ response' = err
            /\ outcome' = err
            /\ pc' = "done"
            /\ UNCHANGED requests
    /\ UNCHANGED <<cfg, call, request, parsed, statusChecked>>

\* _call_geocoder raises: no handler in geocode / reverse, the call ends with it
Propagate(err) ==
    /\ pc = "waiting"
    /\ response' = err
    /\ outcome' = err
    /\ pc' = "done"
    /\ UNCHANGED <<cfg, call, request, requests, parsed, statusChecked>>

\* BaiduV1.geocode / reverse when the transport fails
FailV1(err) ==
    /\ cfg.ver = "BaiduV1"
    /\ Propagate(err)

\* BaiduV2.geocode / reverse when the transport fails
FailV2(err) ==
    /\ cfg.ver = "BaiduV2"
    /\ Propagate(err)

\* the history variable is left alone
Forget == UNCHANGED remembered

Next ==
    \/ \E q \in Queries, c \in Cities, e \in Flags, t \in CallTimeouts :
          GeocodeV1(q, c, e, t) /\ Forget
    \/ \E q \in Points, e \in Flags, t \in CallTimeouts : ReverseV1(q, e, t) /\ Forget
    \/ \E q \in Queries, c \in Cities, e \in Flags, t \in CallTimeouts :
          GeocodeV2(q, c, e, t) /\ Forget
    \/ \E q \in Points, ct \in CoordTypes, e \in Flags, t \in CallTimeouts :
          ReverseV2(q, ct, e, t) /\ Forget
    \/ \E r \in Responses : ReturnV1(r) /\ Forget
    \/ \E r \in Responses : ReturnV2(r) /\ Forget
    \/ \E x \in TransportErrors : FailV1(x) /\ Forget
    \/ \E x \in TransportErrors : FailV2(x) /\ Forget

Spec == Init /\ [][Next]_vars

(***************************************************************************)
(* The same machine with a history variable: one earlier call of the       *)
(* instance and the request it sent are kept for comparison with later     *)
(* calls.  The transport answers from a small set of responses.            *)
(***************************************************************************)
\* calls counted after the remembered one
MaxLater == 2

Remember ==
    remembered' \in
        {[op |-> call'.op, call |-> call', request |-> request', later |-> 0]}
        \cup (IF remembered = NoCall THEN {NoCall}
              ELSE {[remembered EXCEPT !.later = IF @ < MaxLater THEN @ + 1 ELSE @]})

HistoryResponses ==
    {Response(PyStr("OK"), PyList(<<>>), PyList(<<>>), Missing, Missing),
     Response(PyInt(0), Missing, Missing, Missing, Missing),
     Response(PyInt(0), Dict(PyStr("Hongqiao Rd 3, Shanghai"), Missing,
                             LocDict(PyFloat(116), PyInt(39))),
              PyList(<<CHOOSE e \in Entries : TRUE>>),
              PyStr("road"), LocDict(PyFloat(116), PyInt(39))),
     Response(PyStr("OK"), Dict(PyStr("Hongqiao Rd 3, Shanghai"), Missing,
                                LocDict(PyInt(39), PyInt(0))),
              Missing, Missing, Missing),
     Response(PyInt(0), Missing, PyList(<<CHOOSE e \in Entries : TRUE>>),
              Missing, Missing)}

NextHistory ==
    \/ \E q \in Queries, c \in Cities, e \in Flags, t \in CallTimeouts :
          GeocodeV1(q, c, e, t) /\ Remember
    \/ \E q \in Points, e \in Flags, t \in CallTimeouts : ReverseV1(q, e, t) /\ Remember
    \/ \E q \in Queries, c \in Cities, e \in Flags, t \in CallTimeouts :
          GeocodeV2(q, c, e, t) /\ Remember
    \/ \E q \in Points, ct \in CoordTypes, e \in Flags, t \in CallTimeouts :
          ReverseV2(q, ct, e, t) /\ Remember
    \/ \E r \in HistoryResponses : ReturnV1(r) /\ Forget
    \/ \E r \in HistoryResponses : ReturnV2(r) /\ Forget
    \/ \E x \in TransportErrors : FailV1(x) /\ Forget
    \/ \E x \in TransportErrors : FailV2(x) /\ Forget

SpecHistory == Init /\ [][NextHistory]_vars

(***************************************************************************)
(* Vocabulary of the properties.                                           *)
(***************************************************************************)
\* the result collection _parse_json looks at
ResultCollection ==
    IF cfg.ver = "BaiduV1" THEN Get(response.result, PyList(<<>>))
    ELSE Get(response.results, PyList(<<>>))

\* the transport returned a response (and did not fail)
Responded == pc = "done" /\ response \notin TransportErrors

EmptyCollection == Responded /\ HasLen(ResultCollection) /\ PyLen(ResultCollection) = 0

NonEmptyCollection == Responded /\ HasLen(ResultCollection) /\ PyLen(ResultCollection) > 0

IsResult(o) == o.kind = "return" /\ o.value.t = "Location"

IsQueryError(o) == o.kind = "raise" /\ o.exc = "GeocoderQueryError"

(***************************************************************************)
(* Properties.                                                             *)
(***************************************************************************)

\* C1: a Result's coordinate pair is (float, float) or (None, None); it is
\* never the case that exactly one of latitude and longitude is None.
C1_CoordinatePairWhole ==
    (pc = "done" /\ IsResult(outcome)) =>
        \/ outcome.value.latitude.t = "float" /\ outcome.value.longitude.t = "float"
        \/ outcome.value.latitude = None /\ outcome.value.longitude = None

\* the float of a number, nothing for null
FloatOf(v) == IF IsNumber(v) THEN {ToFloat(v)} ELSE {}

\* C2: a V2 response {status, results: [{level, location}, ...]} with a
\* non-empty results list is parsed into a Result whose label is the level of
\* the first entry and whose coordinates come from that entry's location; the
\* call does not end in an error.
C2_V2FirstEntryParsed ==
    (Responded /\ cfg.ver = "BaiduV2" /\ response \in ResponsesV2) =>
        /\ IsResult(outcome)
        /\ LET first == response.results.items[1]
           IN /\ outcome.value.address = first.level
              /\ outcome.value.latitude \in {None} \cup FloatOf(first.location.lat)
              /\ outcome.value.longitude \in {None} \cup FloatOf(first.location.lng)

\* the outcome the V1 status table gives for an empty result
StatusOutcomeV1(status) ==
    IF status = PyStr("OK") THEN Return(None)
    ELSE IF IsNumber(status) /\ status.n = 1
         THEN Raise("GeocoderQueryError", "Server internal error.")
    ELSE IF status = PyStr("INVILID_KEY")
         THEN Raise("GeocoderQueryError", "Invalid key.")
    ELSE IF status = PyStr("INVALID_PARAMETERS")
         THEN Raise("GeocoderQueryError", "INVALID PARAMETERS.")
    ELSE Raise("GeocoderQueryError", "Unknown error.")

\* C3: for a V1 response with an empty result collection the status alone
\* decides: "OK" returns None, 1 raises 'Server internal error.', "INVILID_KEY"
\* raises 'Invalid key.', "INVALID_PARAMETERS" raises the invalid-parameters
\* error, anything else (a missing status too) raises 'Unknown error.'; the
\* status is validated before None is returned.
C3_V1EmptyDecidedByStatus ==
    (cfg.ver = "BaiduV1" /\ EmptyCollection) =>
        /\ statusChecked
        /\ outcome = StatusOutcomeV1(Get(response.status, None))

C3_Witness ==
    /\ cfg.ver = "BaiduV1"
    /\ EmptyCollection
    /\ response.status = PyStr("INVILID_KEY")
    /\ outcome = Raise("GeocoderQueryError", "Invalid key.")

\* the cause message of each mapped V2 status
MessagesV2 ==
    (1 :> "Server internal error.") @@ (2 :> "Invalid request.")
    @@ (3 :> "Permission validation failed.") @@ (4 :> "Quota validation failed.")
    @@ (5 :> "Invalid ak.") @@ (101 :> "Service disabled.")
    @@ (102 :> "Failed to pass the whitelist or wrong security code.")

\* C4: for a V2 response with an empty results collection the numeric status
\* alone decides: 0 returns None; 1, 2, 3, 4, 5, 101, 102 each raise QueryError
\* with a distinct message; anything else (999, a missing status) raises
\* QueryError 'Unknown error.'.
C4_V2EmptyDecidedByStatus ==
    (cfg.ver = "BaiduV2" /\ EmptyCollection) =>
        LET status == Get(response.status, None)
        IN /\ statusChecked
           /\ outcome = IF IsNumber(status) /\ status.n = 0 THEN Return(None)
                        ELSE IF IsNumber(status) /\ status.n \in DOMAIN MessagesV2
                             THEN Raise("GeocoderQueryError", MessagesV2[status.n])
                        ELSE Raise("GeocoderQueryError", "Unknown error.")
           /\ \A m, n \in DOMAIN MessagesV2 :
                 m # n => MessagesV2[m] # MessagesV2[n] /\ MessagesV2[m] # "Unknown error."

C4_Witness ==
    /\ cfg.ver = "BaiduV2"
    /\ EmptyCollection
    /\ response.status = PyInt(102)
    /\ outcome = Raise("GeocoderQueryError",
                       "Failed to pass the whitelist or wrong security code.")

\* a call is under way or has ended
InCall(op) == pc \in {"waiting", "done"} /\ call.op = op

\* the name of the credential parameter
CredentialName == IF cfg.ver = "BaiduV1" THEN "key" ELSE "ak"

\* the credential the instance was constructed with
Credential == IF cfg.ver = "BaiduV1" THEN cfg.key ELSE cfg.ak

\* the endpoint of the instance's API version
Endpoint ==
    IF cfg.ver = "BaiduV1" THEN cfg.scheme \o "://api.map.baidu.com/geocoder"
    ELSE cfg.scheme \o "://api.map.baidu.com/geocoder/v2/"

\* the geocode parameters when the city parameter is sent exactly if sent holds
GeocodeRequestIs(sent) ==
    /\ DOMAIN request.params =
          {"address", "output", CredentialName} \cup (IF sent THEN {"city"} ELSE {})
    /\ request.params.address = cfg.format_string.pre \o call.query.s \o cfg.format_string.post
    /\ request.params.output = "json"
    /\ request.params[CredentialName] = Credential
    /\ sent => request.params.city = call.city.s
    /\ request.target = Endpoint

\* C5 as stated: the geocode parameters are address (the template applied to
\* the query), output = "json", the credential ('key' / 'ak'), and city exactly
\* when the caller passed a city value; nothing else; the target is /geocoder
\* for V1 and /geocoder/v2/ for V2.
C5_CityWheneverPassed == InCall("geocode") => GeocodeRequestIs(call.city # None)

\* C5 amended: as above, with city sent exactly when the caller passed a
\* non-empty city value (an empty string is left out like None).
C5_GeocodeParams ==
    InCall("geocode") => GeocodeRequestIs(call.city # None /\ call.city # PyStr(""))

C5_Witness ==
    /\ InCall("geocode")
    /\ call.city = PyStr("Shanghai")
    /\ cfg.format_string # DEFAULT_FORMAT_STRING
    /\ "city" \in DOMAIN request.params

\* C6: the reverse parameters are location (the query as "lat,lng" text),
\* output = "json" and the credential; BaiduV2 also sends coordtype, the
\* caller's value or "bd09ll" when the caller gives none; BaiduV1 never sends
\* coordtype; neither sends address or city.
C6_ReverseParams ==
    InCall("reverse") =>
        /\ DOMAIN request.params =
              {"location", "output", CredentialName}
              \cup (IF cfg.ver = "BaiduV2" THEN {"coordtype"} ELSE {})
        /\ request.params.location = call.query.lat \o "," \o call.query.lng
        /\ request.params.output = "json"
        /\ request.params[CredentialName] = Credential
        /\ cfg.ver = "BaiduV2" =>
              request.params.coordtype =
                 IF call.coordtype = Missing THEN "bd09ll" ELSE call.coordtype.s

C6_Witness ==
    /\ InCall("reverse")
    /\ cfg.ver = "BaiduV2"
    /\ call.coordtype = PyStr("wgs84ll")
    /\ request.params.coordtype = "wgs84ll"

\* C7: a call issues exactly one transport request; when the transport fails
\* the call ends with that same failure, without parsing, without status
\* validation and without a second request.
C7_OneRequestFailurePropagates ==
    /\ pc \in {"waiting", "done"} => requests = 1
    /\ (pc = "done" /\ response \in TransportErrors) =>
          outcome = response /\ ~parsed /\ ~statusChecked

C7_Witness ==
    /\ pc = "done"
    /\ response = Raise("GeocoderTimedOut", "Service timed out")
    /\ outcome = response
    /\ requests = 1

\* an earlier geocode call with the inputs of the present call
SameCallBefore == remembered.op = "geocode" /\ pc # "idle" /\ remembered.call = call

\* C8: no call changes the instance's configuration, and a geocode call
\* repeated with identical inputs, other calls in between or not, sends
\* identical request parameters.
C8_ConfigurationFrozen ==
    [][cfg' = cfg /\ (SameCallBefore' => request'.params = remembered'.request.params)]_vars

C8_Witness ==
    /\ SameCallBefore
    /\ remembered.later = MaxLater
    /\ request.params = remembered.request.params
    /\ pc = "done"
    /\ outcome.kind = "raise"

\* C9: _check_status is invoked only when the result collection is empty: a
\* response with a non-empty collection never ends in a QueryError, whatever
\* its status, and a QueryError is raised only when the collection was empty.
C9_StatusCheckedOnlyWhenEmpty ==
    /\ statusChecked => EmptyCollection
    /\ (pc = "done" /\ IsQueryError(outcome)) => EmptyCollection
    /\ NonEmptyCollection => ~IsQueryError(outcome) /\ ~statusChecked

C9_Witness ==
    /\ NonEmptyCollection
    /\ response.status = PyInt(5)
    /\ IsResult(outcome)
    /\ ~statusChecked

\* the parse of the present response with the given exactly_one
ParseWith(flag) ==
    IF cfg.ver = "BaiduV1" THEN ParseJsonV1(response, flag) ELSE ParseJsonV2(response, flag)

\* an earlier call whose inputs differ from the present call's in exactly_one only
SameCallOtherFlag ==
    /\ remembered.op = call.op
    /\ pc # "idle"
    /\ remembered.call = [call EXCEPT !.exactly_one = ~call.exactly_one]

====
